---- MODULE Spec2Model ----
(***************************************************************************)
(* A model of claudecode_to_html.py: the command line entry point (main),  *)
(* the loader, the timing analyzer, the markdown renderer, the tool-use /  *)
(* tool-result renderers and the message renderer of SessionRenderer.      *)
(*                                                                         *)
(* Strings.  A Python str is modelled as a sequence of atoms.  An atom is  *)
(* a TLA+ string that stands for either one character ("<", "*", "#",      *)
(* "\n", " ", ...) or one run of word characters (\w: letters,             *)
(* digits, underscore) such as "py", "Edit" or "___H1_START___".  Every    *)
(* literal the code searches for or inserts is a whole number of atoms,    *)
(* so str.replace, re.sub, split and escape act on atoms exactly as they   *)
(* act on the characters.  The empty str is << >>.  Markup the code emits  *)
(* (a tag, an entity) is one atom, so a tag in the output is told apart    *)
(* from the characters of the input.                                       *)
(*                                                                         *)
(* Values.  A JSON / Python value that may be absent, null or of several   *)
(* types is a record with a "tag" field naming which one it is.            *)
(***************************************************************************)
EXTENDS Integers, Sequences, FiniteSets, TLC

VARIABLES
    pc,             \* control position of the run
    argv,           \* sys.argv[1:], a sequence of paths
    exists,         \* os.path.exists(argv[1])
    stdout,         \* what was printed to sys.stdout
    stderr,         \* what was written to sys.stderr
    exit_status,    \* the process exit status, -1 while running
    output_path,    \* main's output_path
    written,        \* the files written: a set of [path, content]
    file_lines,     \* the lines of the input file
    line_no,        \* load_messages: index of the next line of the file
    messages,       \* SessionRenderer.messages
    exc,            \* the exception that ended the run or the call: [type, in]
    msg_no,         \* render_html: index of the next record to render
    timing,         \* the result of calculate_session_timing
    messages_html,  \* render_html: the rendered messages
    rendered,       \* render_html: what render_message returned last
    td,             \* format_timedelta: the duration, in whole seconds
    text,           \* render_markdown: its argument / working text
    code_blocks,    \* render_markdown: the saved fenced blocks
    html,           \* the str a renderer returns
    call            \* the arguments of the renderer under check

vars == <<pc, argv, exists, stdout, stderr, exit_status, output_path, written,
          file_lines, line_no, messages, exc, msg_no, timing, messages_html, rendered, td,
          text, code_blocks, html, call>>

mainVars == <<argv, exists, stdout, stderr, exit_status, output_path, written>>
loadVars == <<file_lines, line_no, messages>>
htmlVars == <<msg_no, timing, messages_html, rendered>>
funVars  == <<td, text, code_blocks, html, call>>

(***************************************************************************)
(* Bounds of the model.                                                    *)
(***************************************************************************)
MaxSeconds == 7325     \* format_timedelta: the longest duration
MaxLines == 3          \* the most lines of an input file
MaxTime == 2           \* the latest timestamp
MaxPieces == 4         \* render_markdown: the most pieces of an input text
MaxPathPieces == 5     \* main: the most pieces of an input path
MaxRecords == 2        \* the most records of a file of malformed records
MaxOutputLines == 5    \* the most lines of a tool result
MaxEditLines == 6      \* the most lines of the old and of the new string of an edit
MaxMixedLines == 4     \* the most lines of an edit string whose lines differ
MaxSessionRecords == 3 \* the most records of a session file

(***************************************************************************)
(* Generic helpers on sequences.                                           *)
(***************************************************************************)
RECURSIVE SeqsUpTo(_, _)
SeqsUpTo(S, n) ==
    IF n = 0 THEN {<< >>}
    ELSE LET shorter == SeqsUpTo(S, n - 1)
         IN  shorter \cup {Append(s, x) : s \in {t \in shorter : Len(t) = n - 1}, x \in S}

RECURSIVE Flatten(_)
Flatten(ss) == IF ss = << >> THEN << >> ELSE Head(ss) \o Flatten(Tail(ss))

\* s[from..] of a sequence (empty when from > Len(s))
From(s, from) == SubSeq(s, from, Len(s))

\* whether pat occurs in s at position i
MatchAt(s, i, pat) ==
    /\ i >= 1
    /\ i + Len(pat) - 1 <= Len(s)
    /\ \A k \in 1..Len(pat) : s[i + k - 1] = pat[k]

Contains(s, pat) == \E i \in 1..Len(s) : MatchAt(s, i, pat)

\* str.replace(old, new): every non-overlapping occurrence, left to right
RECURSIVE str_replace(_, _, _)
str_replace(s, old, new) ==
    IF s = << >> THEN << >>
    ELSE IF MatchAt(s, 1, old) THEN new \o str_replace(From(s, Len(old) + 1), old, new)
    ELSE <<Head(s)>> \o str_replace(Tail(s), old, new)

\* sep.join(parts)
RECURSIVE str_join(_, _)
str_join(sep, parts) ==
    IF parts = << >> THEN << >>
    ELSE IF Len(parts) = 1 THEN Head(parts)
    ELSE Head(parts) \o sep \o str_join(sep, Tail(parts))

(***************************************************************************)
(* html.escape(s) (quote=True): the five special characters become         *)
(* entities, every other atom is kept.                                     *)
(***************************************************************************)
EscapeAtom(a) ==
    CASE a = "&" -> "&amp;"
      [] a = "<" -> "&lt;"
      [] a = ">" -> "&gt;"
      [] a = "\"" -> "&quot;"
      [] a = "'" -> "&#x27;"
      [] OTHER -> a

escape(s) == [i \in 1..Len(s) |-> EscapeAtom(s[i])]

(***************************************************************************)
(* format_timedelta(td).  td is the timedelta in whole seconds.            *)
(***************************************************************************)
format_minutes_shown_if_positive(total_seconds) ==
    LET hours == total_seconds \div 3600
        minutes == (total_seconds % 3600) \div 60
        seconds == total_seconds % 60
        parts == (IF hours > 0 THEN <<<<ToString(hours) \o "h">>>> ELSE << >>)
                 \o (IF minutes > 0 THEN <<<<ToString(minutes) \o "m">>>> ELSE << >>)
                 \o <<<<ToString(seconds) \o "s">>>>
    IN  str_join(<<" ">>, parts)

format_timedelta(total_seconds) ==
    LET hours == total_seconds \div 3600
        minutes == (total_seconds % 3600) \div 60
        seconds == total_seconds % 60
        parts == (IF hours > 0 THEN <<<<ToString(hours) \o "h">>>> ELSE << >>)
                 \o (IF minutes > 0 \/ hours > 0 THEN <<<<ToString(minutes) \o "m">>>> ELSE << >>)
                 \o <<<<ToString(seconds) \o "s">>>>
    IN  str_join(<<" ">>, parts)

(***************************************************************************)
(* render_markdown(text), one operator per statement of the function.      *)
(***************************************************************************)
\* the backquote character (a TLA+ string cannot hold it)
BT == "[backquote]"

\* the arrow that separates the line number in the output of the Read tool
Arrow == "[arrow]"

NonWordAtoms == {BT, Arrow, "[bullet]", "\n", " ", "#", "*", "<", ">", "&", "\"", "'", ".", "/", "-", "+", "=", ","}

\* \w: the atom is a run of word characters
IsWord(a) == a \notin NonWordAtoms

Fence == <<BT, BT, BT>>

\* the character classes the patterns use
InClass(a, class) ==
    CASE class = "\\w" -> IsWord(a)
      [] class = "." -> a # "\n"
      [] class = "[^bq]" -> a # BT

\* the number of consecutive atoms of s from position j on that are in the class
RECURSIVE RunLen(_, _, _)
RunLen(s, j, class) ==
    IF j <= Len(s) /\ InClass(s[j], class) THEN 1 + RunLen(s, j + 1, class) ELSE 0

\* the least c >= from at which pat occurs in s, 0 if none
RECURSIVE FirstAt(_, _, _)
FirstAt(s, from, pat) ==
    IF from + Len(pat) - 1 > Len(s) THEN 0
    ELSE IF MatchAt(s, from, pat) THEN from
    ELSE FirstAt(s, from + 1, pat)

\* the fenced block pattern (three backquotes, optional \w+, newline, non-greedy
\* anything, three backquotes; re.DOTALL) tried at the start of s: the groups
\* and the length of the match, len = 0 when it does not match there
FenceMatch(s) ==
    LET k == 4 + RunLen(s, 4, "\\w")
        c == FirstAt(s, k + 1, Fence)
    IN  IF MatchAt(s, 1, Fence) /\ k <= Len(s) /\ s[k] = "\n" /\ c > 0
        THEN [len |-> c + 2, lang |-> SubSeq(s, 4, k - 1), code |-> SubSeq(s, k + 1, c - 1)]
        ELSE [len |-> 0, lang |-> << >>, code |-> << >>]

\* f'___CODE_BLOCK_{i}___'
Placeholder(i) == "___CODE_BLOCK_" \o ToString(i) \o "___"

\* re.sub(<fenced block pattern>, save_code_block, text, flags=re.DOTALL)
\* with save_code_block appending match.group(0) to code_blocks
RECURSIVE sub_code_blocks(_, _)
sub_code_blocks(s, blocks) ==
    IF s = << >> THEN [text |-> << >>, code_blocks |-> blocks]
    ELSE LET m == FenceMatch(s)
         IN  IF m.len > 0
             THEN LET r == sub_code_blocks(From(s, m.len + 1), Append(blocks, SubSeq(s, 1, m.len)))
                  IN  [text |-> <<Placeholder(Len(blocks))>> \o r.text, code_blocks |-> r.code_blocks]
             ELSE LET r == sub_code_blocks(Tail(s), blocks)
                  IN  [text |-> <<Head(s)>> \o r.text, code_blocks |-> r.code_blocks]

HeaderMarker(level) == [i \in 1..(level + 1) |-> IF i <= level THEN "#" ELSE " "]
HeaderStart(level) == "___H" \o ToString(level) \o "_START___"
HeaderEnd(level) == "___H" \o ToString(level) \o "_END___"

\* re.sub(r'^#{level} (.+)$', r'___Hn_START___\1___Hn_END___', text, flags=re.MULTILINE),
\* s starting at the beginning of a line
RECURSIVE sub_headers(_, _)
sub_headers(s, level) ==
    IF s = << >> THEN << >>
    ELSE LET n == RunLen(s, 1, ".")
             line == SubSeq(s, 1, n)
             mark == HeaderMarker(level)
             out == IF MatchAt(line, 1, mark) /\ Len(line) > Len(mark)
                    THEN <<HeaderStart(level)>> \o From(line, Len(mark) + 1) \o <<HeaderEnd(level)>>
                    ELSE line
         IN  IF n = Len(s) THEN out
             ELSE out \o <<"\n">> \o sub_headers(From(s, n + 2), level)

\* the three html.replace lines that turn the header sentinels into tags
replace_header_sentinels(h) ==
    LET tag(s, level) ==
            str_replace(str_replace(s, <<HeaderStart(level)>>, <<"<h" \o ToString(level) \o ">">>),
                        <<HeaderEnd(level)>>, <<"</h" \o ToString(level) \o ">">>)
    IN  tag(tag(tag(h, 3), 2), 1)

\* re.sub of a backquote, one or more non-backquotes, a backquote by <code>\1</code>
RECURSIVE sub_inline_code(_)
sub_inline_code(s) ==
    IF s = << >> THEN << >>
    ELSE LET n == RunLen(s, 2, "[^bq]")
         IN  IF s[1] = BT /\ n >= 1 /\ 2 + n <= Len(s) /\ s[2 + n] = BT
             THEN <<"<code>">> \o SubSeq(s, 2, 1 + n) \o <<"</code>">> \o sub_inline_code(From(s, 3 + n))
             ELSE <<Head(s)>> \o sub_inline_code(Tail(s))

\* the least j >= from with delim at j and no newline in s[from-1 .. j-1], 0 if none:
\* where the non-greedy (.+?) of a span that opened before from-1 ends
RECURSIVE SpanEnd(_, _, _)
SpanEnd(s, from, delim) ==
    IF from + Len(delim) - 1 > Len(s) \/ s[from - 1] = "\n" THEN 0
    ELSE IF MatchAt(s, from, delim) THEN from
    ELSE SpanEnd(s, from + 1, delim)

\* re.sub(delim (.+?) delim, open \1 close, html) for delim = '**' or '*'
RECURSIVE sub_span(_, _, _, _)
sub_span(s, delim, open, close) ==
    IF s = << >> THEN << >>
    ELSE LET d == Len(delim)
             j == IF MatchAt(s, 1, delim) /\ Len(s) > d THEN SpanEnd(s, d + 2, delim) ELSE 0
         IN  IF j > 0
             THEN <<open>> \o SubSeq(s, d + 1, j - 1) \o <<close>> \o sub_span(From(s, j + d), delim, open, close)
             ELSE <<Head(s)>> \o sub_span(Tail(s), delim, open, close)

sub_bold(s) == sub_span(s, <<"*", "*">>, "<strong>", "</strong>")
sub_italic(s) == sub_span(s, <<"*">>, "<em>", "</em>")

\* html.replace('\n', '<br>\n')
line_breaks(h) == str_replace(h, <<"\n">>, <<"<br>", "\n">>)

\* f'<pre><code class="language-{lang}">{code}</code></pre>' of a saved block
CodeBlockHtml(block) ==
    LET m == FenceMatch(block)
    IN  <<"<pre><code class=\"language-">> \o m.lang \o <<"\">">> \o escape(m.code) \o <<"</code></pre>">>

\* what one pass of the restore loop looks for in html
restore_target(i) == <<Placeholder(i), "<br>", "\n">>

\* the restore loop over enumerate(code_blocks), from block i (0-based) on
RECURSIVE restore_code_blocks(_, _, _)
restore_code_blocks(h, blocks, i) ==
    IF i >= Len(blocks) THEN h
    ELSE restore_code_blocks(
             IF FenceMatch(blocks[i + 1]).len > 0
             THEN str_replace(h, restore_target(i), CodeBlockHtml(blocks[i + 1]))
             ELSE h,
             blocks, i + 1)

inline_markup(h) == sub_italic(sub_bold(sub_inline_code(h)))

headers(s) == sub_headers(sub_headers(sub_headers(s, 3), 2), 1)

render_markdown(s) ==
    IF s = << >> THEN << >>
    ELSE LET x == sub_code_blocks(s, << >>)
         IN  restore_code_blocks(
                 line_breaks(inline_markup(replace_header_sentinels(escape(headers(x.text))))),
                 x.code_blocks, 0)

(***************************************************************************)
(* difflib, as render_edit_diff uses it: str.splitlines(keepends=True),    *)
(* SequenceMatcher (no junk: autojunk only acts on 200 lines or more) and  *)
(* unified_diff(old_lines, new_lines, lineterm='') with n = 3 lines of     *)
(* context.  A line is a str; a diff line is [prefix, line] for the        *)
(* '-', '+' and ' ' lines and [prefix |-> "@@", old_start, new_start] for a *)
(* hunk header, whose two numbers are the ones the code parses back.       *)
(***************************************************************************)
ContextLines == 3

\* s.splitlines(keepends=True): the lines of s, each with its "\n"
RECURSIVE splitlines(_)
splitlines(s) ==
    IF s = << >> THEN << >>
    ELSE LET n == RunLen(s, 1, ".")
         IN  IF n = Len(s) THEN <<s>>
             ELSE <<SubSeq(s, 1, n + 1)>> \o splitlines(From(s, n + 2))

\* the length of the common run of a from i and b from j, within the bounds
RECURSIVE CommonLen(_, _, _, _, _, _)
CommonLen(a, b, i, j, ahi, bhi) ==
    IF i <= ahi /\ j <= bhi /\ a[i] = b[j] THEN 1 + CommonLen(a, b, i + 1, j + 1, ahi, bhi) ELSE 0

\* SequenceMatcher.find_longest_match(alo, ahi, blo, bhi) on a[alo+1..ahi] and
\* b[blo+1..bhi] (0-based half-open as in Python): the longest block, the one
\* starting earliest in a and then earliest in b; size 0 if none
find_longest_match(a, b, alo, ahi, blo, bhi) ==
    LET cands == {<<i, j>> \in (alo..(ahi - 1)) \X (blo..(bhi - 1)) : a[i + 1] = b[j + 1]}
        size(c) == CommonLen(a, b, c[1] + 1, c[2] + 1, ahi, bhi)
        best == CHOOSE c \in cands :
                    \A d \in cands :
                        \/ size(c) > size(d)
                        \/ size(c) = size(d) /\ c[1] < d[1]
                        \/ size(c) = size(d) /\ c[1] = d[1] /\ c[2] <= d[2]
    IN  IF cands = {} THEN [i |-> alo, j |-> blo, size |-> 0]
        ELSE [i |-> best[1], j |-> best[2], size |-> size(best)]

\* the matching blocks of get_matching_blocks before the final sentinel, in order
RECURSIVE matching_blocks(_, _, _, _, _, _)
matching_blocks(a, b, alo, ahi, blo, bhi) ==
    LET m == find_longest_match(a, b, alo, ahi, blo, bhi)
    IN  IF m.size = 0 THEN << >>
        ELSE (IF alo < m.i /\ blo < m.j THEN matching_blocks(a, b, alo, m.i, blo, m.j) ELSE << >>)
             \o <<m>>
             \o (IF m.i + m.size < ahi /\ m.j + m.size < bhi
                 THEN matching_blocks(a, b, m.i + m.size, ahi, m.j + m.size, bhi) ELSE << >>)

\* get_matching_blocks: adjacent blocks merged, then the sentinel (la, lb, 0)
RECURSIVE merge_blocks(_, _)
merge_blocks(blocks, cur) ==
    IF blocks = << >> THEN (IF cur.size > 0 THEN <<cur>> ELSE << >>)
    ELSE LET n == Head(blocks)
         IN  IF cur.i + cur.size = n.i /\ cur.j + cur.size = n.j
             THEN merge_blocks(Tail(blocks), [cur EXCEPT !.size = cur.size + n.size])
             ELSE (IF cur.size > 0 THEN <<cur>> ELSE << >>) \o merge_blocks(Tail(blocks), n)

get_matching_blocks(a, b) ==
    merge_blocks(matching_blocks(a, b, 0, Len(a), 0, Len(b)), [i |-> 0, j |-> 0, size |-> 0])
    \o <<[i |-> Len(a), j |-> Len(b), size |-> 0]>>

\* get_opcodes: [tag, i1, i2, j1, j2] walking the matching blocks from (i, j)
RECURSIVE opcodes_from(_, _, _)
opcodes_from(blocks, i, j) ==
    IF blocks = << >> THEN << >>
    ELSE LET m == Head(blocks)
             tag == IF i < m.i /\ j < m.j THEN "replace"
                    ELSE IF i < m.i THEN "delete"
                    ELSE IF j < m.j THEN "insert"
                    ELSE ""
         IN  (IF tag # "" THEN <<[tag |-> tag, i1 |-> i, i2 |-> m.i, j1 |-> j, j2 |-> m.j]>> ELSE << >>)
             \o (IF m.size > 0
                 THEN <<[tag |-> "equal", i1 |-> m.i, i2 |-> m.i + m.size, j1 |-> m.j, j2 |-> m.j + m.size]>>
                 ELSE << >>)
             \o opcodes_from(Tail(blocks), m.i + m.size, m.j + m.size)

get_opcodes(a, b) == opcodes_from(get_matching_blocks(a, b), 0, 0)

Max(x, y) == IF x >= y THEN x ELSE y
Min(x, y) == IF x <= y THEN x ELSE y

\* get_grouped_opcodes(n): the fix-up of the leading and trailing equal ranges
trim_codes(codes0, n) ==
    LET codes == IF codes0 = << >>
                 THEN <<[tag |-> "equal", i1 |-> 0, i2 |-> 1, j1 |-> 0, j2 |-> 1]>> ELSE codes0
        f == codes[1]
        c1 == IF f.tag = "equal"
              THEN [codes EXCEPT ![1] = [f EXCEPT !.i1 = Max(f.i1, f.i2 - n), !.j1 = Max(f.j1, f.j2 - n)]]
              ELSE codes
        l == c1[Len(c1)]
    IN  IF l.tag = "equal"
        THEN [c1 EXCEPT ![Len(c1)] = [l EXCEPT !.i2 = Min(l.i2, l.i1 + n), !.j2 = Min(l.j2, l.j1 + n)]]
        ELSE c1

\* get_grouped_opcodes(n): the loop that cuts the codes into groups
RECURSIVE group_codes(_, _, _)
group_codes(codes, group, n) ==
    IF codes = << >>
    THEN IF group # << >> /\ ~(Len(group) = 1 /\ group[1].tag = "equal") THEN <<group>> ELSE << >>
    ELSE LET c == Head(codes)
         IN  IF c.tag = "equal" /\ c.i2 - c.i1 > n + n
             THEN <<Append(group, [c EXCEPT !.i2 = Min(c.i2, c.i1 + n), !.j2 = Min(c.j2, c.j1 + n)])>>
                  \o group_codes(Tail(codes),
                                 <<[c EXCEPT !.i1 = Max(c.i1, c.i2 - n), !.j1 = Max(c.j1, c.j2 - n)]>>, n)
             ELSE group_codes(Tail(codes), Append(group, c), n)

get_grouped_opcodes(a, b, n) == group_codes(trim_codes(get_opcodes(a, b), n), << >>, n)

\* _format_range_unified(start, stop): the first number of the range it prints
range_start(start, stop) == IF stop - start = 0 THEN start ELSE start + 1

\* the lines a group yields after its hunk header
RECURSIVE group_lines(_, _, _)
group_lines(a, b, group) ==
    IF group = << >> THEN << >>
    ELSE LET c == Head(group)
             olds(pre) == [k \in 1..(c.i2 - c.i1) |-> [prefix |-> pre, line |-> a[c.i1 + k], old_start |-> 0, new_start |-> 0]]
             news == [k \in 1..(c.j2 - c.j1) |-> [prefix |-> "+", line |-> b[c.j1 + k], old_start |-> 0, new_start |-> 0]]
         IN  (IF c.tag = "equal" THEN olds(" ")
              ELSE (IF c.tag \in {"replace", "delete"} THEN olds("-") ELSE << >>)
                   \o (IF c.tag \in {"replace", "insert"} THEN news ELSE << >>))
             \o group_lines(a, b, Tail(group))

RECURSIVE hunks(_, _, _)
hunks(a, b, groups) ==
    IF groups = << >> THEN << >>
    ELSE LET g == Head(groups)
         IN  <<[prefix |-> "@@", line |-> << >>,
                old_start |-> range_start(g[1].i1, g[Len(g)].i2),
                new_start |-> range_start(g[1].j1, g[Len(g)].j2)]>>
             \o group_lines(a, b, g) \o hunks(a, b, Tail(groups))

\* list(difflib.unified_diff(a, b, lineterm=''))[2:]: the diff without its two
\* file header lines; UnifiedDiffEmpty is "not diff"
unified_diff_body(a, b) == hunks(a, b, get_grouped_opcodes(a, b, ContextLines))
UnifiedDiffEmpty(a, b) == get_grouped_opcodes(a, b, ContextLines) = << >>

(***************************************************************************)
(* Python values.  A value read from the JSON that the code expects to be  *)
(* a str is [tag, str]: tag "absent" (the key is missing), "null" (None),  *)
(* "str" (str holds the atoms), or "num" / "list" (a non-zero number, a    *)
(* non-empty list: values of the wrong type, str holds their repr).        *)
(* A renderer returns [exc, html]: exc is "" and html the str returned, or *)
(* exc names the exception that leaves the function.                       *)
(***************************************************************************)
Absent == [tag |-> "absent", str |-> << >>]
Null == [tag |-> "null", str |-> << >>]
Str(s) == [tag |-> "str", str |-> s]
Num == [tag |-> "num", str |-> <<"5">>]
List == [tag |-> "list", str |-> <<"[1]">>]

\* d.get(key, default) for the value v found under key
GetOr(v, default) == IF v.tag = "absent" THEN default ELSE v
\* d.get(key)
Get(v) == GetOr(v, Null)

\* bool(v)
Truthy(v) == v.tag \in {"num", "list"} \/ (v.tag = "str" /\ v.str # << >>)

Ok(h) == [exc |-> "", html |-> h]
Raise(e) == [exc |-> e, html |-> << >>]

\* s.strip() is non-empty
Whitespace == {" ", "\n", "\t"}
NonBlank(s) == \E i \in 1..Len(s) : s[i] \notin Whitespace

\* s.rstrip('\n')
RECURSIVE rstrip_newlines(_)
rstrip_newlines(s) ==
    IF s # << >> /\ s[Len(s)] = "\n" THEN rstrip_newlines(SubSeq(s, 1, Len(s) - 1)) ELSE s

\* s.split('\n')
RECURSIVE split_newline(_)
split_newline(s) ==
    LET n == RunLen(s, 1, ".")
    IN  IF n = Len(s) THEN <<s>>
        ELSE <<SubSeq(s, 1, n)>> \o split_newline(From(s, n + 2))

\* the number of characters of a str (the backquote atom is one character)
RECURSIVE CharLen(_)
CharLen(s) ==
    IF s = << >> THEN 0 ELSE (IF Head(s) = BT THEN 1 ELSE Len(Head(s))) + CharLen(Tail(s))

\* value[:n], for a str cut between two atoms
RECURSIVE Prefix(_, _)
Prefix(s, n) ==
    IF s = << >> \/ CharLen(<<Head(s)>>) > n THEN << >>
    ELSE <<Head(s)>> \o Prefix(Tail(s), n - CharLen(<<Head(s)>>))

\* repr(value) of a str: quoted, with the quote, backslash and newline escaped
ReprAtom(a, quote) ==
    CASE a = "\n" -> <<"\\", "n">>
      [] a = "\\" -> <<"\\", "\\">>
      [] a = quote -> <<"\\", a>>
      [] OTHER -> <<a>>

ReprStr(s) ==
    LET quote == IF Contains(s, <<"'">>) /\ ~Contains(s, <<"\"">>) THEN "\"" ELSE "'"
    IN  <<quote>> \o Flatten([i \in 1..Len(s) |-> IF s[i] = quote /\ quote = "\"" THEN <<s[i]>> ELSE ReprAtom(s[i], quote)]) \o <<quote>>

PyRepr(v) == IF v.tag = "str" THEN ReprStr(v.str) ELSE IF v.tag = "null" THEN <<"None">> ELSE v.str

(***************************************************************************)
(* render_tool_use(tool).  tool.name is a value as above; tool.input is    *)
(* [tag, items]: tag "dict" with items the (key, value) pairs in order,    *)
(* or "absent", "null", "list".                                            *)
(***************************************************************************)
TruncateAt == 100

ToolNames == {"Read", "Write", "Edit", "Bash", "Grep", "Glob", "Task", "WebFetch", "WebSearch", "TodoWrite"}

\* TOOL_COLORS.get(tool_name, TOOL_COLORS['default'])
ToolColor(name) ==
    IF name.tag = "str" /\ Len(name.str) = 1 /\ name.str[1] \in ToolNames \cup {"default"}
    THEN "color-" \o name.str[1] ELSE "color-default"

NoInput == [tag |-> "absent", items |-> << >>]
EmptyDict == [tag |-> "dict", items |-> << >>]
Dict(items) == [tag |-> "dict", items |-> items]

\* tool_input.get(key, '')
InputGet(input, key) ==
    LET hits == {i \in 1..Len(input.items) : input.items[i].key = key}
    IN  IF hits = {} THEN Str(<< >>)
        ELSE input.items[CHOOSE i \in hits : \A k \in hits : i >= k].value

render_tool_use(tool) ==
    LET tool_name == GetOr(tool.name, Str(<<"Unknown">>))
        tool_input == IF tool.input.tag = "absent" THEN EmptyDict ELSE tool.input
        param(kv) ==
            LET value == IF kv.value.tag = "str" /\ CharLen(kv.value.str) > TruncateAt
                         THEN Str(Prefix(kv.value.str, TruncateAt) \o <<".", ".", ".">>)
                         ELSE kv.value
            IN  <<kv.key, "=">> \o PyRepr(value)
        params == [i \in 1..Len(tool_input.items) |-> param(tool_input.items[i])]
        params_str == str_join(<<",", " ">>, params)
    IN  IF tool_name.tag = "list" THEN Raise("TypeError")
        ELSE IF tool_input.tag # "dict" THEN Raise("AttributeError")
        ELSE IF tool_name.tag # "str" THEN Raise("AttributeError")
        ELSE Ok(<<"<div class=\"tool-use\">", "<div class=\"tool-header\">",
                  "<span class=\"tool-dot\" style=\"background-color: ", ToolColor(tool_name), "\"></span>",
                  "<span class=\"tool-name\">">> \o escape(tool_name.str) \o <<"</span>">>
                \o (IF params_str # << >>
                    THEN <<"<span class=\"tool-params\">">> \o escape(params_str) \o <<"</span>">>
                    ELSE << >>)
                \o <<"</div>", "</div>">>)

(***************************************************************************)
(* render_edit_diff(old_string, new_string, file_path) and                 *)
(* _render_diff_lines(diff_lines).  A line number of a diff line is        *)
(* [blank, n]: blank for the '' the code stores on the side a line does    *)
(* not have.                                                               *)
(***************************************************************************)
CollapseOver == 10
PreviewLines == 5

NoLine == [blank |-> TRUE, n |-> 0]
LineNo(n) == [blank |-> FALSE, n |-> n]

\* diff_body_from keeping its counters at a hunk header
RECURSIVE diff_body_from_no_reset(_, _, _)
diff_body_from_no_reset(diff, old_line_num, new_line_num) ==
    IF diff = << >> THEN << >>
    ELSE LET line == Head(diff)
         IN  IF line.prefix = "@@"
             THEN diff_body_from_no_reset(Tail(diff), old_line_num, new_line_num)
             ELSE IF line.prefix = "-"
             THEN <<[type |-> "delete", old_line |-> LineNo(old_line_num + 1), new_line |-> NoLine, content |-> line.line]>>
                  \o diff_body_from_no_reset(Tail(diff), old_line_num + 1, new_line_num)
             ELSE IF line.prefix = "+"
             THEN <<[type |-> "add", old_line |-> NoLine, new_line |-> LineNo(new_line_num + 1), content |-> line.line]>>
                  \o diff_body_from_no_reset(Tail(diff), old_line_num, new_line_num + 1)
             ELSE <<[type |-> "context", old_line |-> LineNo(old_line_num + 1), new_line |-> LineNo(new_line_num + 1), content |-> line.line]>>
                  \o diff_body_from_no_reset(Tail(diff), old_line_num + 1, new_line_num + 1)

\* the loop over diff[2:] that builds diff_body, with the two counters
RECURSIVE diff_body_from(_, _, _)
diff_body_from(diff, old_line_num, new_line_num) ==
    IF diff = << >> THEN << >>
    ELSE LET line == Head(diff)
         IN  IF line.prefix = "@@"
             THEN diff_body_from(Tail(diff), line.old_start - 1, line.new_start - 1)
             ELSE IF line.prefix = "-"
             THEN <<[type |-> "delete", old_line |-> LineNo(old_line_num + 1), new_line |-> NoLine, content |-> line.line]>>
                  \o diff_body_from(Tail(diff), old_line_num + 1, new_line_num)
             ELSE IF line.prefix = "+"
             THEN <<[type |-> "add", old_line |-> NoLine, new_line |-> LineNo(new_line_num + 1), content |-> line.line]>>
                  \o diff_body_from(Tail(diff), old_line_num, new_line_num + 1)
             ELSE <<[type |-> "context", old_line |-> LineNo(old_line_num + 1), new_line |-> LineNo(new_line_num + 1), content |-> line.line]>>
                  \o diff_body_from(Tail(diff), old_line_num + 1, new_line_num + 1)

diff_body(old_lines, new_lines) == diff_body_from(unified_diff_body(old_lines, new_lines), 0, 0)

\* f"{num if num else ''}"
LineNoHtml(num) == IF num.blank \/ num.n = 0 THEN << >> ELSE <<ToString(num.n)>>

render_diff_line(line) ==
    LET prefix == CASE line.type = "delete" -> <<"-">> [] line.type = "add" -> <<"+">> [] OTHER -> << >>
        css_class == CASE line.type = "delete" -> "diff-del" [] line.type = "add" -> "diff-add" [] OTHER -> "diff-context"
    IN  <<"<div class=\"diff-line " \o css_class \o "\">", "<span class=\"diff-line-num old\">">>
        \o LineNoHtml(line.old_line) \o <<"</span>", "<span class=\"diff-line-num new\">">>
        \o LineNoHtml(line.new_line) \o <<"</span>", "<span class=\"diff-prefix\">">>
        \o prefix \o <<"</span>", "<span class=\"diff-content\">">>
        \o escape(rstrip_newlines(line.content)) \o <<"</span>", "</div>">>

_render_diff_lines(diff_lines) ==
    <<"<div class=\"diff-lines\">">>
    \o Flatten([i \in 1..Len(diff_lines) |-> render_diff_line(diff_lines[i])])
    \o <<"</div>">>

NoChangesHtml == <<"<div class=\"tool-result\"><pre><code>", "No", " ", "changes", "</code></pre></div>">>

\* render_edit_diff collapsing from CollapseOver lines on
render_edit_diff_collapse_at_ten(old_string, new_string, file_path) ==
    IF old_string.tag # "str" \/ new_string.tag # "str" THEN Raise("AttributeError")
    ELSE LET old_lines == splitlines(old_string.str)
             new_lines == splitlines(new_string.str)
             body == diff_body(old_lines, new_lines)
             total_lines == Len(body)
             header == IF Truthy(file_path)
                       THEN <<"<div class=\"diff-file-header\">", "[bullet]", " ", "Edit", " ">> \o escape(file_path.str) \o <<"</div>">>
                       ELSE << >>
         IN  IF UnifiedDiffEmpty(old_lines, new_lines) THEN Ok(NoChangesHtml)
             ELSE IF Truthy(file_path) /\ file_path.tag # "str" THEN Raise("AttributeError")
             ELSE IF total_lines >= CollapseOver
             THEN Ok(<<"<div class=\"edit-diff collapsible\">">> \o header
                     \o <<"<div class=\"diff-preview\">">> \o _render_diff_lines(SubSeq(body, 1, PreviewLines))
                     \o <<"<div class=\"diff-expand-link\">", "Show full diff (", ToString(total_lines - PreviewLines),
                          " more lines)", "</div>", "</div>", "<div class=\"diff-full\">">>
                     \o _render_diff_lines(body) \o <<"</div>", "</div>">>)
             ELSE Ok(<<"<div class=\"edit-diff\">">> \o header \o _render_diff_lines(body) \o <<"</div>">>)

render_edit_diff(old_string, new_string, file_path) ==
    IF old_string.tag # "str" \/ new_string.tag # "str" THEN Raise("AttributeError")
    ELSE LET old_lines == splitlines(old_string.str)
             new_lines == splitlines(new_string.str)
             body == diff_body(old_lines, new_lines)
             total_lines == Len(body)
             header == IF Truthy(file_path)
                       THEN <<"<div class=\"diff-file-header\">", "[bullet]", " ", "Edit", " ">> \o escape(file_path.str) \o <<"</div>">>
                       ELSE << >>
         IN  IF UnifiedDiffEmpty(old_lines, new_lines) THEN Ok(NoChangesHtml)
             ELSE IF Truthy(file_path) /\ file_path.tag # "str" THEN Raise("AttributeError")
             ELSE IF total_lines > CollapseOver
             THEN Ok(<<"<div class=\"edit-diff collapsible\">">> \o header
                     \o <<"<div class=\"diff-preview\">">> \o _render_diff_lines(SubSeq(body, 1, PreviewLines))
                     \o <<"<div class=\"diff-expand-link\">", "Show full diff (", ToString(total_lines - PreviewLines),
                          " more lines)", "</div>", "</div>", "<div class=\"diff-full\">">>
                     \o _render_diff_lines(body) \o <<"</div>", "</div>">>)
             ELSE Ok(<<"<div class=\"edit-diff\">">> \o header \o _render_diff_lines(body) \o <<"</div>">>)

(***************************************************************************)
(* render_tool_result(result, tool_name, tool_input).  result.content is   *)
(* [tag, str, items]: "absent", "null", "num", "str" (str holds it) or     *)
(* "list", whose items are [tag, str, type, text]: a str item, a dict item *)
(* with its type and text, or a number.                                    *)
(***************************************************************************)
ResultPreview == 3
LongFileOver == 20
FileHead == 10
FileTail == 5

NoContent == [tag |-> "absent", str |-> << >>, items |-> << >>]
NullContent == [tag |-> "null", str |-> << >>, items |-> << >>]
NumContent == [tag |-> "num", str |-> << >>, items |-> << >>]
StrContent(s) == [tag |-> "str", str |-> s, items |-> << >>]
ListContent(items) == [tag |-> "list", str |-> << >>, items |-> items]

\* the text_parts the loop over a list content collects
RECURSIVE text_parts(_)
text_parts(items) ==
    IF items = << >> THEN << >>
    ELSE LET item == Head(items)
         IN  (IF item.tag = "dict" /\ item.type = "text" THEN <<GetOr(item.text, Str(<< >>))>>
              ELSE IF item.tag = "str" THEN <<Str(item.str)>>
              ELSE << >>)
             \o text_parts(Tail(items))

\* render_result_text collapsing from ResultPreview lines on
render_result_text_collapse_at_preview(content, tool_name) ==
    LET is_file_content == Contains(content, <<Arrow>>) /\ Contains(content, <<"\n">>)
        lines == split_newline(content)
        joined(ls) == str_join(<<"\n">>, ls)
        collapsible(preview, what) ==
            <<"<div class=\"tool-result collapsible\">", "<div class=\"tool-result-preview\">", "<pre><code>">>
            \o escape(preview)
            \o <<"</code></pre>", "<div class=\"expand-hint\">", "Click to show full " \o what \o " (",
                 ToString(Len(lines)), " lines)", "</div>", "</div>", "<div class=\"tool-result-full\">", "<pre><code>">>
            \o escape(content) \o <<"</code></pre>", "</div>", "</div>">>
    IN  IF tool_name.tag = "str" /\ tool_name.str \in {<<"Bash">>, <<"Grep">>} /\ Len(lines) >= ResultPreview
        THEN collapsible(joined(SubSeq(lines, 1, ResultPreview)), "output")
        ELSE IF is_file_content /\ Len(lines) > LongFileOver
        THEN collapsible(joined(SubSeq(lines, 1, FileHead) \o <<<<"... (content hidden) ...">>>>
                                \o SubSeq(lines, Len(lines) - FileTail + 1, Len(lines))), "content")
        ELSE <<"<div class=\"tool-result\">", "<pre><code>">> \o escape(content) \o <<"</code></pre>", "</div>">>

\* the rendering of a str content: the three layouts of lines 345-390
render_result_text(content, tool_name) ==
    LET is_file_content == Contains(content, <<Arrow>>) /\ Contains(content, <<"\n">>)
        lines == split_newline(content)
        joined(ls) == str_join(<<"\n">>, ls)
        collapsible(preview, what) ==
            <<"<div class=\"tool-result collapsible\">", "<div class=\"tool-result-preview\">", "<pre><code>">>
            \o escape(preview)
            \o <<"</code></pre>", "<div class=\"expand-hint\">", "Click to show full " \o what \o " (",
                 ToString(Len(lines)), " lines)", "</div>", "</div>", "<div class=\"tool-result-full\">", "<pre><code>">>
            \o escape(content) \o <<"</code></pre>", "</div>", "</div>">>
    IN  IF tool_name.tag = "str" /\ tool_name.str \in {<<"Bash">>, <<"Grep">>} /\ Len(lines) > ResultPreview
        THEN collapsible(joined(SubSeq(lines, 1, ResultPreview)), "output")
        ELSE IF is_file_content /\ Len(lines) > LongFileOver
        THEN collapsible(joined(SubSeq(lines, 1, FileHead) \o <<<<"... (content hidden) ...">>>>
                                \o SubSeq(lines, Len(lines) - FileTail + 1, Len(lines))), "content")
        ELSE <<"<div class=\"tool-result\">", "<pre><code>">> \o escape(content) \o <<"</code></pre>", "</div>">>

\* the guard of line 322: tool_name == 'Edit' and tool_input
edit_guard(tool_name, tool_input) ==
    /\ tool_name = Str(<<"Edit">>)
    /\ tool_input.tag = "list" \/ (tool_input.tag = "dict" /\ tool_input.items # << >>)

render_tool_result(result, tool_name, tool_input) ==
    IF edit_guard(tool_name, tool_input)
    THEN IF tool_input.tag # "dict" THEN Raise("AttributeError")
         ELSE render_edit_diff(InputGet(tool_input, "old_string"), InputGet(tool_input, "new_string"),
                               InputGet(tool_input, "file_path"))
    ELSE LET c == IF result.content.tag = "absent" THEN StrContent(<< >>) ELSE result.content
             parts == text_parts(c.items)
         IN  IF c.tag = "list" /\ \E i \in 1..Len(parts) : parts[i].tag # "str" THEN Raise("TypeError")
             ELSE LET content == IF c.tag = "list"
                                 THEN str_join(<<"\n">>, [i \in 1..Len(parts) |-> parts[i].str])
                                 ELSE c.str
                  IN  IF c.tag = "null" \/ (c.tag \in {"str", "list"} /\ content = << >>) THEN Ok(<< >>)
                      ELSE IF c.tag = "num" THEN Raise("TypeError")
                      ELSE Ok(render_result_text(content, tool_name))

(***************************************************************************)
(* Records and content items.  A record (one retained line) is             *)
(* [type, timestamp, message]; message is [tag, content] with tag "absent",*)
(* "null" or "dict"; content is [tag, str, items] with tag "absent",       *)
(* "null", "num", "str" or "list".  A content item is [tag, str, type,     *)
(* text, name, id, input, tool_use_id, content]: tag "str" (str holds it), *)
(* "num", or "dict" with the fields the four item types use; type is the   *)
(* value of item.get('type'), "None" when the key is missing.              *)
(***************************************************************************)
NoItems == [tag |-> "absent", str |-> << >>, items |-> << >>]
BlankItem == [tag |-> "dict", str |-> << >>, type |-> "None", text |-> Absent, name |-> Absent,
              id |-> Absent, input |-> NoInput, tool_use_id |-> Absent, content |-> NoContent]
StrItem(s) == [BlankItem EXCEPT !.tag = "str", !.str = s]
NumItem == [BlankItem EXCEPT !.tag = "num"]
TextItem(t) == [BlankItem EXCEPT !.type = "text", !.text = t]
ThinkingItem == [BlankItem EXCEPT !.type = "thinking"]
ToolUse(name, id, input) == [BlankItem EXCEPT !.type = "tool_use", !.name = name, !.id = id, !.input = input]
ToolResult(id, content) == [BlankItem EXCEPT !.type = "tool_result", !.tool_use_id = id, !.content = content]

NoMessage == [tag |-> "absent", content |-> NoItems]
NullMessage == [tag |-> "null", content |-> NoItems]
Message(content) == [tag |-> "dict", content |-> content]
Items(items) == [tag |-> "list", str |-> << >>, items |-> items]
StrItems(s) == [tag |-> "str", str |-> s, items |-> << >>]
NullItems == [tag |-> "null", str |-> << >>, items |-> << >>]

\* message.get('content', []) of msg.get('message', {}), the message being a dict or absent
ContentOf(message) ==
    IF message.tag = "absent" \/ message.content.tag = "absent" THEN Items(<< >>) ELSE message.content

(***************************************************************************)
(* find_and_render_tool_result(tool_id, tool_name, tool_input) over        *)
(* self.messages = msgs.                                                   *)
(***************************************************************************)
\* the inner loop over the items of one user record: the index of the first
\* tool_result item whose tool_use_id equals tool_id, 0 if none
\* the last matching item instead of the first
LastResult(items, tool_id) ==
    LET hits == {i \in 1..Len(items) :
                    /\ items[i].tag = "dict"
                    /\ items[i].type = "tool_result"
                    /\ Get(items[i].tool_use_id) = tool_id}
    IN  IF hits = {} THEN 0 ELSE CHOOSE i \in hits : \A k \in hits : i >= k

FirstResult(items, tool_id) ==
    LET hits == {i \in 1..Len(items) :
                    /\ items[i].tag = "dict"
                    /\ items[i].type = "tool_result"
                    /\ Get(items[i].tool_use_id) = tool_id}
    IN  IF hits = {} THEN 0 ELSE CHOOSE i \in hits : \A k \in hits : i <= k

RECURSIVE find_and_render_tool_result(_, _, _, _)
find_and_render_tool_result(tool_id, tool_name, tool_input, msgs) ==
    IF msgs = << >> THEN Ok(<< >>)
    ELSE LET msg == Head(msgs)
             content == ContentOf(msg.message)
             hit == FirstResult(content.items, tool_id)
         IN  IF msg.type # "user" THEN find_and_render_tool_result(tool_id, tool_name, tool_input, Tail(msgs))
             ELSE IF msg.message.tag = "null" THEN Raise("AttributeError")
             ELSE IF content.tag = "str" THEN find_and_render_tool_result(tool_id, tool_name, tool_input, Tail(msgs))
             ELSE IF content.tag # "list" THEN Raise("TypeError")
             ELSE IF hit > 0 THEN render_tool_result(content.items[hit], tool_name, tool_input)
             ELSE find_and_render_tool_result(tool_id, tool_name, tool_input, Tail(msgs))

(***************************************************************************)
(* render_message(msg), with self.messages = msgs.                         *)
(***************************************************************************)
MessageText(h) == <<"<div class=\"message-text\">">> \o h \o <<"</div>">>

\* render_markdown called on a value that need not be a str
render_markdown_value(v) ==
    IF ~Truthy(v) THEN Ok(<< >>)
    ELSE IF v.tag # "str" THEN Raise("TypeError")
    ELSE Ok(render_markdown(v.str))

\* one pass of the loop over the items of a user record
render_user_item(item) ==
    IF item.tag = "str" THEN Ok(MessageText(render_markdown(item.str)))
    ELSE IF item.tag = "dict" /\ item.type = "text"
    THEN LET r == render_markdown_value(GetOr(item.text, Str(<< >>)))
         IN  IF r.exc # "" THEN r ELSE Ok(MessageText(r.html))
    ELSE Ok(<< >>)

\* render_assistant_item appending the result before the tool use
render_assistant_item_result_first(item, msgs) ==
    IF item.tag = "str"
    THEN Ok(IF NonBlank(item.str) THEN MessageText(render_markdown(item.str)) ELSE << >>)
    ELSE IF item.tag # "dict" THEN Ok(<< >>)
    ELSE IF item.type = "text"
    THEN LET t == GetOr(item.text, Str(<< >>))
         IN  IF t.tag # "str" THEN Raise("AttributeError")
             ELSE Ok(IF NonBlank(t.str) THEN MessageText(render_markdown(t.str)) ELSE << >>)
    ELSE IF item.type = "tool_use"
    THEN LET use == render_tool_use(item)
             result == find_and_render_tool_result(Get(item.id), GetOr(item.name, Str(<< >>)),
                           IF item.input.tag = "absent" THEN EmptyDict ELSE item.input, msgs)
         IN  IF use.exc # "" THEN use
             ELSE IF result.exc # "" THEN result
             ELSE Ok(result.html \o use.html)
    ELSE Ok(<< >>)

\* one pass of the loop over the items of an assistant record
render_assistant_item(item, msgs) ==
    IF item.tag = "str"
    THEN Ok(IF NonBlank(item.str) THEN MessageText(render_markdown(item.str)) ELSE << >>)
    ELSE IF item.tag # "dict" THEN Ok(<< >>)
    ELSE IF item.type = "text"
    THEN LET t == GetOr(item.text, Str(<< >>))
         IN  IF t.tag # "str" THEN Raise("AttributeError")
             ELSE Ok(IF NonBlank(t.str) THEN MessageText(render_markdown(t.str)) ELSE << >>)
    ELSE IF item.type = "tool_use"
    THEN LET use == render_tool_use(item)
             result == find_and_render_tool_result(Get(item.id), GetOr(item.name, Str(<< >>)),
                           IF item.input.tag = "absent" THEN EmptyDict ELSE item.input, msgs)
         IN  IF use.exc # "" THEN use
             ELSE IF result.exc # "" THEN result
             ELSE Ok(use.html \o result.html)
    ELSE Ok(<< >>)

\* the html_parts of a loop over items, joined: stops at the first exception
RECURSIVE join_parts(_)
join_parts(parts) ==
    IF parts = << >> THEN Ok(<< >>)
    ELSE IF Head(parts).exc # "" THEN Head(parts)
    ELSE LET rest == join_parts(Tail(parts))
         IN  IF rest.exc # "" THEN rest ELSE Ok(Head(parts).html \o rest.html)

Container(class, parts) ==
    IF parts.exc # "" \/ parts.html = << >> THEN parts
    ELSE Ok(<<"<div class=\"message " \o class \o "\">">> \o parts.html \o <<"</div>">>)

\* a str content iterated by the assistant loop: one item per character
CharItems(s) == [i \in 1..Len(s) |-> StrItem(<<s[i]>>)]

render_message(msg, msgs) ==
    LET content == ContentOf(msg.message)
    IN  IF msg.message.tag = "null" THEN Raise("AttributeError")
        ELSE IF msg.type = "user"
        THEN IF content.tag = "str" THEN Container("user-message", Ok(MessageText(render_markdown(content.str))))
             ELSE IF content.tag # "list" THEN Raise("TypeError")
             ELSE Container("user-message",
                      join_parts([i \in 1..Len(content.items) |-> render_user_item(content.items[i])]))
        ELSE IF msg.type = "assistant"
        THEN IF content.tag \notin {"str", "list"} THEN Raise("TypeError")
             ELSE LET items == IF content.tag = "str" THEN CharItems(content.str) ELSE content.items
                  IN  Container("assistant-message",
                          join_parts([i \in 1..Len(items) |-> render_assistant_item(items[i], msgs)]))
        ELSE Ok(<< >>)

(***************************************************************************)
(* calculate_session_timing().  The timestamp of a record is               *)
(* [kind, t, suffix]: kind "absent" (no key), "number" (a non-zero number),*)
(* "empty" (the empty str), "garbage" (a str that is no ISO-8601 date) or  *)
(* "iso": the ISO-8601 date and time t seconds after a fixed instant,      *)
(* followed by suffix "Z", "+00:00" or nothing.  A datetime is [aware, t]. *)
(***************************************************************************)
NoTimestamp == [kind |-> "absent", t |-> 0, suffix |-> ""]
Iso(t, suffix) == [kind |-> "iso", t |-> t, suffix |-> suffix]

\* timestamp_str.replace('Z', '+00:00'), on the suffix of an ISO str
replace_Z(ts) == IF ts.suffix = "Z" THEN [ts EXCEPT !.suffix = "+00:00"] ELSE ts

\* datetime.fromisoformat(s): [ok, aware, t]; not ok is the ValueError
fromisoformat(ts) ==
    IF ts.kind = "iso" /\ ts.suffix \in {"", "+00:00"}
    THEN [ok |-> TRUE, aware |-> ts.suffix # "", t |-> ts.t]
    ELSE [ok |-> FALSE, aware |-> FALSE, t |-> 0]

\* the loop of lines 62-72: the records with a usable timestamp
RECURSIVE timestamped_messages(_)
timestamped_messages(msgs) ==
    IF msgs = << >> THEN << >>
    ELSE LET ts == Head(msgs).timestamp
             d == fromisoformat(replace_Z(ts))
         IN  (IF ts.kind \in {"absent", "empty"} THEN << >>    \* falsy: skipped
              ELSE IF ts.kind = "number" THEN << >>            \* AttributeError, caught
              ELSE IF ~d.ok THEN << >>                         \* ValueError, caught
              ELSE <<[type |-> Head(msgs).type, aware |-> d.aware, t |-> d.t]>>)
             \o timestamped_messages(Tail(msgs))

ZeroTiming == [exc |-> "", total_duration |-> 0, claude_working_time |-> 0, waiting_for_user_time |-> 0]
TimingError == [exc |-> "TypeError", total_duration |-> 0, claude_working_time |-> 0, waiting_for_user_time |-> 0]

\* the loop of lines 90-100 from pair i on: [exc, working, waiting]
RECURSIVE sum_gaps(_, _)
sum_gaps(tm, i) ==
    IF i > Len(tm) THEN [exc |-> "", working |-> 0, waiting |-> 0]
    ELSE LET prev == tm[i - 1]
             curr == tm[i]
             time_diff == curr.t - prev.t
             rest == sum_gaps(tm, i + 1)
         IN  IF prev.aware # curr.aware \/ rest.exc # "" THEN [exc |-> "TypeError", working |-> 0, waiting |-> 0]
             ELSE IF prev.type = "user" /\ curr.type = "assistant"
             THEN [rest EXCEPT !.working = rest.working + time_diff]
             ELSE IF prev.type = "assistant" /\ curr.type = "user"
             THEN [rest EXCEPT !.waiting = rest.waiting + time_diff]
             ELSE rest

calculate_session_timing(msgs) ==
    LET tm == timestamped_messages(msgs)
        gaps == sum_gaps(tm, 2)
    IN  IF msgs = << >> \/ Len(tm) < 2 THEN ZeroTiming
        ELSE IF tm[1].aware # tm[Len(tm)].aware \/ gaps.exc # "" THEN TimingError
        ELSE [exc |-> "", total_duration |-> tm[Len(tm)].t - tm[1].t,
              claude_working_time |-> gaps.working, waiting_for_user_time |-> gaps.waiting]

(***************************************************************************)
(* load_messages().  A line of the file is [json, value]: json is          *)
(* "invalid" (json.loads raises JSONDecodeError), "object", or "array" /   *)
(* "scalar" (a JSON value that is no object); value is the record of an    *)
(* object line.                                                            *)
(***************************************************************************)
RecognizedTypes == {"user", "assistant", "system"}

Record(type, timestamp, message) == [type |-> type, timestamp |-> timestamp, message |-> message]
ObjectLine(rec) == [json |-> "object", value |-> rec]
OtherLine(json) == [json |-> json, value |-> Record("None", NoTimestamp, NoMessage)]

\* one pass of the loop of lines 43-49: what it does with the line
\* ("skip", "append", or "raise": the AttributeError of data.get on a non-dict)
load_line(line) ==
    IF line.json = "invalid" THEN "skip"
    ELSE IF line.json # "object" THEN "raise"
    ELSE IF line.value.type \in RecognizedTypes THEN "append"
    ELSE "skip"

(***************************************************************************)
(* main() and SessionRenderer.save / render_html.  A path is a str.        *)
(***************************************************************************)
\* input_path.replace('.jsonl', '.html')
default_output_path(input_path) == str_replace(input_path, <<".", "jsonl">>, <<".", "html">>)

\* the timing block of render_html (lines 892-906)
timing_html(t) ==
    <<"<div class=\"session-timing\">", "Total Duration:">> \o format_timedelta(t.total_duration)
    \o <<"Claude Working Time:">> \o format_timedelta(t.claude_working_time)
    \o <<"Waiting for User:">> \o format_timedelta(t.waiting_for_user_time) \o <<"</div>">>

(***************************************************************************)
(* The run of the program: main, then SessionRenderer(input_path) which    *)
(* loads the file line by line, then save, which renders (the timing, then *)
(* each record) and writes the file.  An exception nothing catches ends    *)
(* the run with a traceback on stderr and exit status 1.                   *)
(***************************************************************************)
NoExc == [type |-> "", in |-> ""]

Uncaught(type, in) ==
    /\ exc' = [type |-> type, in |-> in]
    /\ stderr' = Append(stderr, "Traceback")
    /\ exit_status' = 1
    /\ pc' = "exit"

\* lines 950-952
MainUsage ==
    /\ pc = "main"
    /\ Len(argv) < 1
    /\ stdout' = Append(stdout, "Usage")
    /\ exit_status' = 1
    /\ pc' = "exit"
    /\ UNCHANGED <<argv, exists, stderr, output_path, written, exc>>
    /\ UNCHANGED <<loadVars, htmlVars, funVars>>

\* lines 954-958
MainNotFound ==
    /\ pc = "main"
    /\ Len(argv) >= 1
    /\ ~exists
    /\ stdout' = Append(stdout, "Error: not found")
    /\ exit_status' = 1
    /\ pc' = "exit"
    /\ UNCHANGED <<argv, exists, stderr, output_path, written, exc>>
    /\ UNCHANGED <<loadVars, htmlVars, funVars>>

\* lines 960-964
MainOutputPath ==
    /\ pc = "main"
    /\ Len(argv) >= 1
    /\ exists
    /\ output_path' = IF Len(argv) >= 2 THEN argv[2] ELSE default_output_path(argv[1])
    /\ pc' = "load"
    /\ UNCHANGED <<argv, exists, stdout, stderr, exit_status, written, exc>>
    /\ UNCHANGED <<loadVars, htmlVars, funVars>>

\* one pass of the loop of load_messages
LoadLine ==
    /\ pc = "load"
    /\ line_no <= Len(file_lines)
    /\ LET what == load_line(file_lines[line_no])
       IN  IF what = "raise"
           THEN /\ Uncaught("AttributeError", "load_messages")
                /\ UNCHANGED <<line_no, messages>>
           ELSE /\ messages' = IF what = "append" THEN Append(messages, file_lines[line_no].value) ELSE messages
                /\ line_no' = line_no + 1
                /\ UNCHANGED <<pc, exc, stderr, exit_status>>
    /\ UNCHANGED <<argv, exists, stdout, output_path, written, file_lines>>
    /\ UNCHANGED <<htmlVars, funVars>>

\* the end of the file: load_messages returns, main calls save, save render_html
LoadDone ==
    /\ pc = "load"
    /\ line_no > Len(file_lines)
    /\ pc' = "timing"
    /\ UNCHANGED <<mainVars, loadVars, exc, htmlVars, funVars>>

\* render_html, line 891
CalcTiming ==
    /\ pc = "timing"
    /\ timing' = calculate_session_timing(messages)
    /\ IF timing'.exc # ""
       THEN Uncaught(timing'.exc, "calculate_session_timing")
       ELSE /\ pc' = "render"
            /\ UNCHANGED <<exc, stderr, exit_status>>
    /\ UNCHANGED <<argv, exists, stdout, output_path, written, msg_no, messages_html, rendered>>
    /\ UNCHANGED <<loadVars, funVars>>

\* render_html, one pass of the loop of lines 909-912
RenderMessage ==
    /\ pc = "render"
    /\ msg_no <= Len(messages)
    /\ rendered' = render_message(messages[msg_no], messages)
    /\ IF rendered'.exc # ""
       THEN /\ Uncaught(rendered'.exc, "render_message")
            /\ UNCHANGED <<msg_no, messages_html>>
       ELSE /\ messages_html' = IF rendered'.html # << >> THEN Append(messages_html, rendered'.html)
                                ELSE messages_html
            /\ msg_no' = msg_no + 1
            /\ UNCHANGED <<pc, exc, stderr, exit_status>>
    /\ UNCHANGED <<argv, exists, stdout, output_path, written, timing>>
    /\ UNCHANGED <<loadVars, funVars>>

\* render_html, lines 914-939, and save, lines 944-946
Save ==
    /\ pc = "render"
    /\ msg_no > Len(messages)
    /\ html' = <<"<!DOCTYPE html>">> \o timing_html(timing) \o <<"<div class=\"messages\">">>
               \o Flatten(messages_html) \o <<"</div>", "</html>">>
    /\ written' = written \cup {[path |-> output_path, content |-> html']}
    /\ stdout' = Append(stdout, "Saved HTML to")
    /\ exit_status' = 0
    /\ pc' = "exit"
    /\ UNCHANGED <<argv, exists, stderr, output_path, exc>>
    /\ UNCHANGED <<loadVars, htmlVars, td, text, code_blocks, call>>

Next ==
    \/ MainUsage
    \/ MainNotFound
    \/ MainOutputPath
    \/ LoadLine
    \/ LoadDone
    \/ CalcTiming
    \/ RenderMessage
    \/ Save

\* the state at the start of main, for a command line, a file system and a file
Start(args, there, lines) ==
    /\ pc = "main"
    /\ argv = args
    /\ exists = there
    /\ file_lines = lines
    /\ stdout = << >>
    /\ stderr = << >>
    /\ exit_status = -1
    /\ output_path = << >>
    /\ written = {}
    /\ line_no = 1
    /\ messages = << >>
    /\ exc = NoExc
    /\ msg_no = 1
    /\ timing = ZeroTiming
    /\ messages_html = << >>
    /\ rendered = Ok(<< >>)
    /\ td = 0
    /\ text = << >>
    /\ code_blocks = << >>
    /\ html = << >>
    /\ call = << >>

InPath == <<"session", ".", "jsonl">>
OutPath == <<"out", ".", "html">>

\* the command lines and file systems other than the one under study
OtherStarts(lines) ==
    \E args \in {<< >>, <<InPath>>, <<InPath, OutPath>>}, there \in BOOLEAN :
        /\ ~(args = <<InPath>> /\ there)
        /\ Start(args, there, lines)

PlainMessage == Message(Items(<<StrItem(<<"x">>)>>))

(***************************************************************************)
(* SpecLoad: the run over files whose lines are invalid JSON, JSON values  *)
(* that are no object, and objects of every type.                          *)
(***************************************************************************)
LoadTypes == RecognizedTypes \cup {"summary", "None"}

LoadLines ==
    {OtherLine("invalid"), OtherLine("array"), OtherLine("scalar")}
    \cup {ObjectLine(Record(type, NoTimestamp, PlainMessage)) : type \in LoadTypes}

InitLoad ==
    \/ \E lines \in SeqsUpTo(LoadLines, MaxLines) : Start(<<InPath>>, TRUE, lines)
    \/ OtherStarts(<< >>)

SpecLoad == InitLoad /\ [][Next]_vars

\* the records the loader is to retain, in file order
RECURSIVE Retained(_)
Retained(lines) ==
    IF lines = << >> THEN << >>
    ELSE (IF Head(lines).json = "object" /\ Head(lines).value.type \in {"user", "assistant", "system"}
          THEN <<Head(lines).value>> ELSE << >>)
         \o Retained(Tail(lines))

\* C1: load_messages never raises, and once it has read the whole file it has
\* retained exactly the lines that are JSON with a recognized type, in file
\* order; every other line (invalid JSON, or a JSON value that is no object) is
\* ignored.
C1_LoadIgnoresOtherLines ==
    /\ exc.in # "load_messages"
    /\ pc = "timing" => messages = Retained(file_lines)

(***************************************************************************)
(* SpecTiming: the run over files of records of every type and every kind  *)
(* of timestamp.                                                           *)
(***************************************************************************)
Timestamps ==
    {NoTimestamp, [kind |-> "number", t |-> 0, suffix |-> ""], [kind |-> "empty", t |-> 0, suffix |-> ""],
     [kind |-> "garbage", t |-> 0, suffix |-> ""]}
    \cup {Iso(t, suffix) : t \in 0..MaxTime, suffix \in {"Z", "+00:00", ""}}

TimingLines == {ObjectLine(Record(type, ts, PlainMessage)) : type \in RecognizedTypes, ts \in Timestamps}

InitTiming ==
    \/ \E lines \in SeqsUpTo(TimingLines, MaxLines) : Start(<<InPath>>, TRUE, lines)
    \/ OtherStarts(<< >>)

SpecTiming == InitTiming /\ [][Next]_vars

\* the records with a parseable timestamp, as [type, t], in sequence order
RECURSIVE Timestamped(_)
Timestamped(msgs) ==
    IF msgs = << >> THEN << >>
    ELSE (IF Head(msgs).timestamp.kind = "iso"
          THEN <<[type |-> Head(msgs).type, t |-> Head(msgs).timestamp.t]>> ELSE << >>)
         \o Timestamped(Tail(msgs))

RECURSIVE SumGaps(_, _, _)
SumGaps(tm, first, second) ==
    IF Len(tm) < 2 THEN 0
    ELSE (IF tm[1].type = first /\ tm[2].type = second THEN tm[2].t - tm[1].t ELSE 0)
         + SumGaps(Tail(tm), first, second)

\* the reference summary of the timing analyzer
ReferenceTiming(msgs) ==
    LET tm == Timestamped(msgs)
    IN  IF Len(tm) < 2 THEN [total |-> 0, working |-> 0, waiting |-> 0]
        ELSE [total |-> tm[Len(tm)].t - tm[1].t,
              working |-> SumGaps(tm, "user", "assistant"),
              waiting |-> SumGaps(tm, "assistant", "user")]

TimingCalled == pc = "render" \/ exc.in = "calculate_session_timing" \/ (pc = "exit" /\ exit_status = 0)

\* C2: for every loaded record sequence calculate_session_timing returns the
\* reference summary: zero durations with fewer than two timestamped records,
\* otherwise total = last - first, working = the (user, assistant) gaps,
\* waiting = the (assistant, user) gaps.
C2_TimingIsReference ==
    TimingCalled =>
        /\ timing.exc = ""
        /\ [total |-> timing.total_duration, working |-> timing.claude_working_time,
            waiting |-> timing.waiting_for_user_time] = ReferenceTiming(messages)

\* the rendering of the records once their timestamps are removed
WithoutTimestamps(msgs) == [i \in 1..Len(msgs) |-> [msgs[i] EXCEPT !.timestamp = NoTimestamp]]

RECURSIVE RenderedAll(_, _)
RenderedAll(msgs, i) ==
    IF i > Len(msgs) THEN << >>
    ELSE LET r == render_message(msgs[i], msgs)
         IN  (IF r.html # << >> THEN <<r.html>> ELSE << >>) \o RenderedAll(msgs, i + 1)

\* C3: whatever the timestamps are, calculate_session_timing returns a summary
\* and does not abort the run, and every record is rendered as it would be
\* without a timestamp.
C3_TimestampsNeverAbort ==
    /\ exc.in # "calculate_session_timing"
    /\ (pc = "exit" /\ Len(argv) = 1 /\ exists) =>
           /\ exit_status = 0
           /\ messages_html = RenderedAll(WithoutTimestamps(messages), 1)

(***************************************************************************)
(* SpecMain: the run over command lines and input paths.                   *)
(***************************************************************************)
PathPieces == {<<"a">>, <<"/">>, <<".", "jsonl">>, <<".", "txt">>}

Paths == {Flatten(ps) : ps \in SeqsUpTo(PathPieces, MaxPathPieces) \ {<< >>}}

MainFiles == {<< >>, <<ObjectLine(Record("user", NoTimestamp, PlainMessage))>>}

InitMain ==
    \E lines \in MainFiles, there \in BOOLEAN :
        \/ Start(<< >>, there, lines)
        \/ \E p \in Paths : Start(<<p>>, there, lines) \/ Start(<<p, OutPath>>, there, lines)

SpecMain == InitMain /\ [][Next]_vars

\* the greatest i with s[i] = a, 0 if none
LastIndex(s, a) ==
    LET hits == {i \in 1..Len(s) : s[i] = a}
    IN  IF hits = {} THEN 0 ELSE CHOOSE i \in hits : \A k \in hits : i >= k

\* os.path.splitext(path)[0]: the path without its extension, the extension
\* being what follows the last dot of the last component, leading dots apart
PathRoot(path) ==
    LET sep == LastIndex(path, "/")
        dot == LastIndex(path, ".")
    IN  IF dot > sep /\ \E i \in (sep + 1)..(dot - 1) : path[i] # "."
        THEN SubSeq(path, 1, dot - 1) ELSE path

HasExtension(path) == PathRoot(path) # path

\* C5: with an input path and no output path, the output path is the input
\* path with its extension replaced by .html, whatever the extension and the
\* directory names; with a second argument, that argument is the output path.
C5_OutputPathReplacesExtension ==
    (pc # "main" /\ Len(argv) >= 1 /\ exists) =>
        /\ Len(argv) >= 2 => output_path = argv[2]
        /\ (Len(argv) = 1 /\ HasExtension(argv[1])) => output_path = PathRoot(argv[1]) \o <<".", "html">>

\* C6: with no input path, or an input path that names no existing file, the
\* run ends with exit status 1 after a message on the error stream, and neither
\* loads records nor writes a file.
C6_UsageErrorOnStderr ==
    (pc = "exit" /\ (Len(argv) = 0 \/ ~exists)) =>
        /\ exit_status = 1
        /\ stderr # << >>
        /\ line_no = 1
        /\ messages = << >>
        /\ written = {}

(***************************************************************************)
(* SpecRender: the run over files of records whose nested fields are       *)
(* missing or of the wrong type.                                           *)
(***************************************************************************)
GoodInput == Dict(<<[key |-> "command", value |-> Str(<<"ls">>)]>>)
NullInput == [tag |-> "null", items |-> << >>]
ListInput == [tag |-> "list", items |-> << >>]

MalformedItems ==
    {NumItem, StrItem(<<"x">>), ThinkingItem, TextItem(Absent), TextItem(Null), TextItem(Str(<<"x">>))}
    \cup {ToolUse(name, Str(<<"t1">>), GoodInput) : name \in {Absent, Null, Str(<<"Bash">>)}}
    \cup {ToolUse(Str(<<"Bash">>), id, GoodInput) : id \in {Absent, Null}}
    \cup {ToolUse(Str(<<"Bash">>), Str(<<"t1">>), input) : input \in {NoInput, NullInput, ListInput, EmptyDict}}
    \cup {ToolResult(Str(<<"t1">>), content) : content \in {NoContent, NullContent, StrContent(<<"ok">>)}}

MalformedMessages ==
    {NoMessage, NullMessage, Message(NoItems), Message(NullItems), Message(StrItems(<<"x">>))}
    \cup {Message(Items(<<item>>)) : item \in MalformedItems}
    \cup {Message(Items(<<NumItem, item>>)) : item \in {TextItem(Absent), StrItem(<<"x">>)}}

RenderLines ==
    {ObjectLine(Record(type, NoTimestamp, message)) : type \in {"user", "assistant"}, message \in MalformedMessages}
    \cup {ObjectLine(Record("system", NoTimestamp, message)) : message \in {NoMessage, NullMessage}}

InitRender ==
    \/ \E lines \in SeqsUpTo(RenderLines, MaxRecords) : Start(<<InPath>>, TRUE, lines)
    \/ OtherStarts(<< >>)

SpecRender == InitRender /\ [][Next]_vars

\* C7: render_message, with the tool-use, tool-result and lookup renderers it
\* calls, returns a fragment without raising for every retained record, also
\* when nested fields are missing, null or of the wrong type.
C7_RenderNeverRaises == exc.in # "render_message"

(***************************************************************************)
(* The renderers called on their own.  Called(fn) is the state in which    *)
(* nothing has run and the function fn is about to be applied to its       *)
(* arguments (td, text or call); CalledOn, with msgs the loaded records.    *)
(***************************************************************************)
CalledOn(fn, msgs) ==
    /\ pc = fn
    /\ argv = << >>
    /\ exists = FALSE
    /\ file_lines = << >>
    /\ stdout = << >>
    /\ stderr = << >>
    /\ exit_status = -1
    /\ output_path = << >>
    /\ written = {}
    /\ line_no = 1
    /\ messages = msgs
    /\ exc = NoExc
    /\ msg_no = 1
    /\ timing = ZeroTiming
    /\ messages_html = << >>
    /\ rendered = Ok(<< >>)
    /\ code_blocks = << >>
    /\ html = << >>

Called(fn) == CalledOn(fn, << >>)

(***************************************************************************)
(* SpecFormat: format_timedelta applied to every duration of 0 to          *)
(* MaxSeconds whole seconds.                                               *)
(***************************************************************************)
InitFormat ==
    \E s \in 0..MaxSeconds :
        /\ Called("format_timedelta")
        /\ td = s
        /\ text = << >>
        /\ call = << >>

FormatTimedelta ==
    /\ pc = "format_timedelta"
    /\ html' = format_timedelta(td)
    /\ pc' = "returned"
    /\ UNCHANGED <<mainVars, loadVars, htmlVars, exc, td, text, code_blocks, call>>

SpecFormat == InitFormat /\ [][FormatTimedelta]_vars

\* the components of a str: the atoms at the odd positions, when every atom
\* at an even position is a single space
Components(h) == [i \in 1..((Len(h) + 1) \div 2) |-> h[2 * i - 1]]
SpaceJoined(h) == Len(h) % 2 = 1 /\ \A i \in 1..Len(h) : i % 2 = 0 => h[i] = " "

\* C4: for s seconds with h = s div 3600, m = (s mod 3600) div 60 and
\* sec = s mod 60, format_timedelta gives the components hours, minutes,
\* seconds in that order joined by single spaces: "<sec>s" always, "<m>m" iff
\* m > 0 or h > 0, "<h>h" iff h > 0; 0 gives "0s" and 3900 gives "1h 5m 0s".
C4_FormatComponents ==
    pc = "returned" =>
        LET h == td \div 3600
            m == (td % 3600) \div 60
            sec == td % 60
            c == Components(html)
            n == Len(c)
        IN  /\ SpaceJoined(html)
            /\ c[n] = ToString(sec) \o "s"
            /\ n = 1 + (IF m > 0 \/ h > 0 THEN 1 ELSE 0) + (IF h > 0 THEN 1 ELSE 0)
            /\ (m > 0 \/ h > 0) => c[n - 1] = ToString(m) \o "m"
            /\ h > 0 => c[1] = ToString(h) \o "h"
            /\ td = 0 => html = <<"0s">>
            /\ td = 3900 => html = <<"1h", " ", "5m", " ", "0s">>

\* a whole number of hours has been formatted: the minutes are shown as 0m
C4_Witness == pc = "returned" /\ td = 3600 /\ html = <<"1h", " ", "0m", " ", "0s">>

(***************************************************************************)
(* SpecMarkdown: render_markdown applied to the texts made of up to        *)
(* MaxPieces pieces: fenced blocks, fences, prose, markdown markers,       *)
(* characters html.escape changes, and the words the function itself uses  *)
(* as header sentinels and code block placeholders.                        *)
(***************************************************************************)
PyBlock == Fence \o <<"python", "\n", "print", "(", "1", ")", "\n">> \o Fence

MdPieces ==
    {PyBlock, Fence \o <<"\n">>, Fence, <<"x">>, <<"\n">>, <<"<">>, <<"*", "*">>, <<"#", " ">>,
     <<HeaderStart(1)>>, <<HeaderEnd(1)>>, <<Placeholder(0)>>, <<BT>>}

InitMarkdown ==
    \E pieces \in SeqsUpTo(MdPieces, MaxPieces) :
        /\ Called("render_markdown")
        /\ td = 0
        /\ text = Flatten(pieces)
        /\ call = << >>

RenderMarkdown ==
    /\ pc = "render_markdown"
    /\ code_blocks' = sub_code_blocks(text, << >>).code_blocks
    /\ html' = render_markdown(text)
    /\ pc' = "returned"
    /\ UNCHANGED <<mainVars, loadVars, htmlVars, exc, td, text, call>>

SpecMarkdown == InitMarkdown /\ [][RenderMarkdown]_vars

\* the language tag and the content of a fenced block: what lies between the
\* opening fence and the first newline, and between that newline and the
\* closing fence
BlockNewline(block) == CHOOSE k \in 4..Len(block) : block[k] = "\n" /\ \A j \in 4..(k - 1) : block[j] # "\n"
BlockLang(block) == SubSeq(block, 4, BlockNewline(block) - 1)
BlockContent(block) == SubSeq(block, BlockNewline(block) + 1, Len(block) - 3)

\* C8: every fenced block render_markdown extracts appears in the output as
\* <pre><code class="language-LANG"> holding the escaped content, wherever the
\* block sits in the text, and no placeholder of an extracted block is left
\* in the output.
C8_CodeBlocksRendered ==
    pc = "returned" =>
        \A i \in 1..Len(code_blocks) :
            /\ Contains(html, <<"<pre><code class=\"language-">> \o BlockLang(code_blocks[i]) \o <<"\">">>
                              \o escape(BlockContent(code_blocks[i])) \o <<"</code></pre>">>)
            /\ ~Contains(html, <<Placeholder(i - 1)>>)

\* how many atoms of s are in the set S
Count(s, S) == Cardinality({i \in 1..Len(s) : s[i] \in S})

\* C9: the output of render_markdown has no tag that comes from the input:
\* the characters < > & and the quotes of the input appear escaped only, and
\* the header and pre tags stand where the markdown syntax puts them (one
\* header per # marker at most, one pre per fenced block), not where the text
\* holds a sentinel or a placeholder word.
C9_NoTagFromInput ==
    pc = "returned" =>
        /\ Count(html, {"<", ">", "&", "\"", "'"}) = 0
        /\ Count(html, {"<h1>", "<h2>", "<h3>"}) <= Count(text, {"#"})
        /\ Count(html, {"<pre><code class=\"language-"}) <= Len(code_blocks)

(***************************************************************************)
(* SpecToolResult: render_tool_result applied to a result, the name of the *)
(* tool it answers and that tool's input.                                  *)
(***************************************************************************)
ResultContents == {NoContent, NullContent, StrContent(<<"hello">>), StrContent(<<"a", "\n", "b">>)}

EditStrings == {<< >>, <<"a", "\n">>, <<"b", "\n">>}

ToolInputs ==
    {NoInput, EmptyDict}
    \cup {Dict(<<[key |-> "file_path", value |-> Str(<<"f", ".", "py">>)]>>)}
    \cup {Dict(<<[key |-> "old_string", value |-> Str(old)], [key |-> "new_string", value |-> Str(new)]>>) :
            old \in EditStrings, new \in EditStrings}
    \cup {Dict(<<[key |-> "file_path", value |-> Str(<<"f", ".", "py">>)],
                 [key |-> "old_string", value |-> Str(old)], [key |-> "new_string", value |-> Str(new)]>>) :
            old \in EditStrings, new \in EditStrings}

ResultToolNames == {Str(<<"Edit">>), Str(<<"Bash">>), Str(<<"Read">>), Str(<< >>)}

InitToolResult ==
    \E content \in ResultContents, tool_name \in ResultToolNames, tool_input \in ToolInputs :
        /\ Called("render_tool_result")
        /\ td = 0
        /\ text = << >>
        /\ call = [result |-> ToolResult(Str(<<"t1">>), content), tool_name |-> tool_name, tool_input |-> tool_input]

RenderToolResult ==
    /\ pc = "render_tool_result"
    /\ rendered' = render_tool_result(call.result, call.tool_name, call.tool_input)
    /\ pc' = "returned"
    /\ UNCHANGED <<mainVars, loadVars, msg_no, timing, messages_html, exc, funVars>>

SpecToolResult == InitToolResult /\ [][RenderToolResult]_vars

\* C10: for a result of the Edit tool the output of render_tool_result is
\* render_edit_diff of old_string, new_string and file_path of the tool input
\* (an absent key being the empty string), for every tool input, the empty one
\* included, whatever the content of the result.
C10_EditAlwaysDiff ==
    pc = "returned" /\ call.tool_name = Str(<<"Edit">>) /\ call.tool_input.tag = "dict" =>
        rendered = render_edit_diff(InputGet(call.tool_input, "old_string"),
                                    InputGet(call.tool_input, "new_string"),
                                    InputGet(call.tool_input, "file_path"))

(***************************************************************************)
(* SpecOutput: render_tool_result applied to results whose content is made *)
(* of up to MaxOutputLines lines, given as a str or as a list of str       *)
(* items, for the two tools whose output is collapsed and for another one. *)
(***************************************************************************)
OutputLines == {<< >>, <<"a">>, <<"<", "b">>}

OutputContents ==
    {StrContent(str_join(<<"\n">>, ls)) : ls \in SeqsUpTo(OutputLines, MaxOutputLines)}
    \cup {ListContent([i \in 1..Len(ls) |-> StrItem(ls[i])]) : ls \in SeqsUpTo(OutputLines, MaxOutputLines)}

InitOutput ==
    \E content \in OutputContents, tool_name \in {Str(<<"Bash">>), Str(<<"Grep">>), Str(<<"Read">>)},
       tool_input \in {NoInput, EmptyDict} :
        /\ Called("render_tool_result")
        /\ td = 0
        /\ text = << >>
        /\ call = [result |-> ToolResult(Str(<<"t1">>), content), tool_name |-> tool_name, tool_input |-> tool_input]

SpecOutput == InitOutput /\ [][RenderToolResult]_vars

\* the content of a result as one str: a str content itself, the str items of
\* a list content one per line
RECURSIVE ContentStr(_)
ContentStr(content) ==
    IF content.tag = "str" THEN content.str
    ELSE IF content.items = << >> THEN << >>
    ELSE IF Len(content.items) = 1 THEN content.items[1].str
    ELSE content.items[1].str \o <<"\n">> \o ContentStr([content EXCEPT !.items = Tail(content.items)])

\* the first k lines of s: s up to its k-th newline, without it
RECURSIVE FirstLines(_, _)
FirstLines(s, k) ==
    IF s = << >> \/ (Head(s) = "\n" /\ k = 1) THEN << >>
    ELSE <<Head(s)>> \o FirstLines(Tail(s), IF Head(s) = "\n" THEN k - 1 ELSE k)

\* C11: a Bash or Grep result with non-empty content of n lines (n - 1
\* newlines) is, for n <= 3, one plain block holding the whole content and no
\* expand control, and for n > 3 a collapsible block whose preview holds the
\* first 3 lines, whose hint reports n lines and whose full section holds the
\* whole content; 3 lines are not collapsed, 4 lines show 3 and report 4.
C11_OutputCollapsedOverThree ==
    pc = "returned" /\ call.tool_name \in {Str(<<"Bash">>), Str(<<"Grep">>)} =>
        LET content == ContentStr(call.result.content)
            n == Count(content, {"\n"}) + 1
        IN  content # << >> =>
                /\ rendered.exc = ""
                /\ n <= 3 =>
                       /\ rendered.html = <<"<div class=\"tool-result\">", "<pre><code>">> \o escape(content)
                                          \o <<"</code></pre>", "</div>">>
                       /\ Count(rendered.html, {"<div class=\"expand-hint\">"}) = 0
                /\ n > 3 =>
                       rendered.html =
                           <<"<div class=\"tool-result collapsible\">", "<div class=\"tool-result-preview\">",
                             "<pre><code>">>
                           \o escape(FirstLines(content, 3))
                           \o <<"</code></pre>", "<div class=\"expand-hint\">", "Click to show full output (",
                                ToString(n), " lines)", "</div>", "</div>", "<div class=\"tool-result-full\">",
                                "<pre><code>">>
                           \o escape(content) \o <<"</code></pre>", "</div>", "</div>">>

\* a Bash result of four lines has been collapsed to three, reporting 4
C11_Witness ==
    /\ pc = "returned"
    /\ call.tool_name = Str(<<"Bash">>)
    /\ call.result.content = StrContent(<<"a", "\n", "a", "\n", "a", "\n", "a">>)
    /\ Count(rendered.html, {"<div class=\"tool-result collapsible\">"}) = 1
    /\ Contains(rendered.html, <<"Click to show full output (", "4", " lines)">>)

(***************************************************************************)
(* SpecEdit: render_edit_diff applied to old and new strings of up to      *)
(* MaxEditLines lines each, with and without a file path.                  *)
(***************************************************************************)
EditLines == {<<"a", "\n">>, <<"b", "\n">>}

\* every text of up to MaxMixedLines lines, the texts of up to MaxEditLines
\* equal lines, and the texts whose first and last line are too far apart for
\* one hunk
EditTexts ==
    {Flatten(ls) : ls \in SeqsUpTo(EditLines, MaxMixedLines)}
    \cup {Flatten([i \in 1..k |-> l]) : k \in 0..MaxEditLines, l \in EditLines}
    \cup {first \o Flatten([i \in 1..(2 * ContextLines + 1) |-> <<"a", "\n">>]) \o last :
             first \in EditLines, last \in EditLines}

InitEdit ==
    \E old \in EditTexts, new \in EditTexts, path \in {<< >>, <<"f", ".", "py">>} :
        /\ Called("render_edit_diff")
        /\ td = 0
        /\ text = << >>
        /\ call = [old_string |-> Str(old), new_string |-> Str(new), file_path |-> Str(path)]

RenderEditDiff ==
    /\ pc = "render_edit_diff"
    /\ rendered' = render_edit_diff(call.old_string, call.new_string, call.file_path)
    /\ pc' = "returned"
    /\ UNCHANGED <<mainVars, loadVars, msg_no, timing, messages_html, exc, funVars>>

SpecEdit == InitEdit /\ [][RenderEditDiff]_vars

\* the diff body of the call
EditBody == diff_body(splitlines(call.old_string.str), splitlines(call.new_string.str))

\* the opening tags of the rendered diff lines
DiffLineTags == {"<div class=\"diff-line diff-del\">", "<div class=\"diff-line diff-add\">",
                 "<div class=\"diff-line diff-context\">"}

\* C12: for differing strings with a diff body of n lines, n <= 10 gives all n
\* lines once and no expand control; n > 10 gives a preview of the first 5
\* lines, a control reporting n - 5 more lines and a full section with all n
\* lines in order.  Identical strings give the No changes fragment and no
\* diff table.
C12_DiffCollapsedOverTen ==
    pc = "returned" =>
        LET n == Len(EditBody)
            h == rendered.html
        IN  /\ rendered.exc = ""
            /\ call.old_string = call.new_string =>
                   /\ h = NoChangesHtml
                   /\ Count(h, DiffLineTags \cup {"<div class=\"diff-lines\">"}) = 0
            /\ call.old_string # call.new_string /\ n <= 10 =>
                   /\ Count(h, DiffLineTags) = n
                   /\ Count(h, {"<div class=\"diff-lines\">"}) = 1
                   /\ Contains(h, _render_diff_lines(EditBody))
                   /\ Count(h, {"<div class=\"diff-expand-link\">", "<div class=\"edit-diff collapsible\">"}) = 0
            /\ call.old_string # call.new_string /\ n > 10 =>
                   /\ Count(h, DiffLineTags) = 5 + n
                   /\ Contains(h, <<"<div class=\"diff-preview\">">> \o _render_diff_lines(SubSeq(EditBody, 1, 5))
                                  \o <<"<div class=\"diff-expand-link\">", "Show full diff (", ToString(n - 5),
                                       " more lines)", "</div>">>)
                   /\ Contains(h, <<"<div class=\"diff-full\">">> \o _render_diff_lines(EditBody))

\* five lines replaced by six: a diff body of 11 lines, collapsed, 6 hidden
C12_Witness ==
    /\ pc = "returned"
    /\ Len(EditBody) = 11
    /\ Contains(rendered.html, <<"Show full diff (", "6", " more lines)">>)

(***************************************************************************)
(* SpecSession: the run over files of up to MaxSessionRecords records of   *)
(* the documented shape: user records with string or list content (text    *)
(* and tool_result items), assistant records with text, thinking and       *)
(* tool_use items, system records.  Every tool_result has its own content, *)
(* so that a rendered result shows which item it renders.                  *)
(***************************************************************************)
T1 == Str(<<"t1">>)
T2 == Str(<<"t2">>)
Use(id) == ToolUse(Str(<<"Bash">>), id, GoodInput)

UserContents ==
    {StrItems(<< >>),
     Items(<< >>),
     Items(<<TextItem(Str(<< >>))>>),
     Items(<<TextItem(Str(<<"hi">>)), ToolResult(T1, StrContent(<<"r1">>))>>),
     Items(<<ToolResult(T1, StrContent(<<"r2">>))>>),
     Items(<<ToolResult(T1, StrContent(<< >>)), ToolResult(T1, StrContent(<<"r3">>))>>),
     Items(<<ToolResult(Absent, StrContent(<<"r4">>))>>)}

AssistantContents ==
    {Items(<< >>),
     Items(<<TextItem(Str(<<" ">>)), ThinkingItem>>),
     Items(<<TextItem(Str(<<"x">>)), Use(T1), StrItem(<<"y">>)>>),
     Items(<<Use(T2), Use(T1), Use(T1)>>),
     Items(<<Use(Absent)>>)}

SessionRecords ==
    {Record("user", NoTimestamp, Message(c)) : c \in UserContents}
    \cup {Record("assistant", NoTimestamp, Message(c)) : c \in AssistantContents}
    \cup {Record("system", NoTimestamp, NoMessage)}

InitSession ==
    \/ \E recs \in SeqsUpTo(SessionRecords, MaxSessionRecords) :
           Start(<<InPath>>, TRUE, [i \in 1..Len(recs) |-> ObjectLine(recs[i])])
    \/ OtherStarts(<< >>)

SpecSession == InitSession /\ [][Next]_vars

\* render_message has just returned for the record LastRendered
JustRendered == pc = "render" /\ msg_no > 1
LastRendered == messages[msg_no - 1]

\* an item of a user record that shows nothing: a tool_result, or a text item
\* or plain str that is empty
Invisible(item) ==
    \/ item.tag = "dict" /\ item.type = "tool_result"
    \/ item.tag = "dict" /\ item.type = "text" /\ item.text \in {Absent, Str(<< >>)}
    \/ item.tag = "str" /\ item.str = << >>

\* the record without its tool_result items
RECURSIVE WithoutResults(_)
WithoutResults(items) ==
    IF items = << >> THEN << >>
    ELSE (IF Head(items).tag = "dict" /\ Head(items).type = "tool_result" THEN << >> ELSE <<Head(items)>>)
         \o WithoutResults(Tail(items))

\* C13: render_message returns the empty string, not a user-message
\* container, for a user record whose content shows nothing: an empty string,
\* an empty list, only tool_result items or only text items with empty text;
\* and a tool_result item of a user record contributes no fragment.
C13_EmptyUserRendersNothing ==
    JustRendered /\ LastRendered.type = "user" =>
        LET content == LastRendered.message.content
        IN  /\ (content.tag = "str" /\ content.str = << >>) => rendered.html = << >>
            /\ (content.tag = "list" /\ \A i \in 1..Len(content.items) : Invisible(content.items[i]))
                   => rendered.html = << >>
            /\ content.tag = "list" =>
                   rendered = render_message(
                                  [LastRendered EXCEPT !.message.content.items = WithoutResults(content.items)],
                                  messages)

(***************************************************************************)
(* SpecFind: find_and_render_tool_result applied to an identifier (that of *)
(* a tool_use, None when it has no id) over the loaded records of a        *)
(* session.                                                                *)
(***************************************************************************)
InitFind ==
    \E recs \in SeqsUpTo(SessionRecords, MaxSessionRecords), tool_id \in {T1, T2, Null} :
        /\ CalledOn("find_and_render_tool_result", recs)
        /\ td = 0
        /\ text = << >>
        /\ call = [tool_id |-> tool_id, tool_name |-> Str(<<"Bash">>), tool_input |-> GoodInput, loaded |-> recs]

FindAndRender ==
    /\ pc = "find_and_render_tool_result"
    /\ rendered' = find_and_render_tool_result(call.tool_id, call.tool_name, call.tool_input, messages)
    /\ pc' = "returned"
    /\ UNCHANGED <<mainVars, loadVars, msg_no, timing, messages_html, exc, funVars>>

SpecFind == InitFind /\ [][FindAndRender]_vars

\* the places <<record, item>> of the tool_result items of user records whose
\* tool_use_id equals id
Matching(msgs, id) ==
    UNION {{<<r, i>> : i \in {k \in 1..Len(msgs[r].message.content.items) :
                                 LET item == msgs[r].message.content.items[k]
                                 IN  /\ item.tag = "dict"
                                     /\ item.type = "tool_result"
                                     /\ Get(item.tool_use_id) = id}} :
           r \in {k \in 1..Len(msgs) : msgs[k].type = "user"}}

\* file order of places
Before(p, q) == p[1] < q[1] \/ (p[1] = q[1] /\ p[2] <= q[2])
FirstPlace(places) == CHOOSE p \in places : \A q \in places : Before(p, q)
ItemAt(msgs, p) == msgs[p[1]].message.content.items[p[2]]

ResultPlaces(msgs) ==
    UNION {{<<r, i>> : i \in {k \in 1..Len(msgs[r].message.content.items) :
                                 LET item == msgs[r].message.content.items[k]
                                 IN  item.tag = "dict" /\ item.type = "tool_result"}} :
           r \in {k \in 1..Len(msgs) : msgs[k].type = "user"}}

\* the assistant record a holds a tool_use item with the identifier id
UsesId(msgs, a, id) ==
    /\ msgs[a].type = "assistant"
    /\ \E k \in 1..Len(msgs[a].message.content.items) :
           LET item == msgs[a].message.content.items[k]
           IN  item.tag = "dict" /\ item.type = "tool_use" /\ Get(item.id) = id

\* C15: in the rendered document every tool_result item is rendered for at
\* most one tool_use item, and that tool_use item precedes the record of the
\* tool_result in file order; also when tool_use items share an identifier or
\* have none, and when a tool_result comes before the tool_use with its
\* identifier.  (Stated for the tool_result items whose content no other
\* tool_result of the session has, the content showing which item is rendered.)
C15_ResultMatchedOnce ==
    pc = "exit" /\ exit_status = 0 /\ Len(argv) = 1 =>
        \A p \in ResultPlaces(messages) :
            LET item == ItemAt(messages, p)
                shown == Count(html, {item.content.str[1]})
            IN  /\ item.content.str # << >>
                /\ \A q \in ResultPlaces(messages) : ItemAt(messages, q).content = item.content => q = p
                => /\ shown <= 1
                   /\ shown = 1 => \E a \in 1..(p[1] - 1) : UsesId(messages, a, Get(item.tool_use_id))

\* a text that is empty or holds white space only
Blank(s) == \A i \in 1..Len(s) : s[i] \in {" ", "\n", "\t"}

\* the fragment of the result matching a tool_use item, none when no
\* tool_result answers its identifier
ResultFragment(item, msgs) ==
    LET places == Matching(msgs, Get(item.id))
    IN  IF places = {} THEN << >>
        ELSE render_tool_result(ItemAt(msgs, FirstPlace(places)), item.name, item.input).html

\* what one content item of an assistant record yields
Fragment(item, msgs) ==
    IF item.tag = "str"
    THEN (IF Blank(item.str) THEN << >> ELSE MessageText(render_markdown(item.str)))
    ELSE IF item.type = "text"
    THEN (IF Blank(item.text.str) THEN << >> ELSE MessageText(render_markdown(item.text.str)))
    ELSE IF item.type = "tool_use"
    THEN render_tool_use(item).html \o ResultFragment(item, msgs)
    ELSE << >>

\* the fragments of the items, one after the other in the order of the items
RECURSIVE InItemOrder(_, _)
InItemOrder(items, msgs) ==
    IF items = << >> THEN << >> ELSE Fragment(Head(items), msgs) \o InItemOrder(Tail(items), msgs)

ShownNumber(a) == CHOOSE k \in 1..(MaxEditLines + 2 * ContextLines + 3) : ToString(k) = a

\* the diff line rendered in h at the atom i, read back from the markup: the
\* class of the line, its old and new number (0 when the cell is empty), its
\* prefix and its content
ShownAt(h, i) ==
    LET o == i + 2
        n == (IF h[o] = "</span>" THEN o ELSE o + 1) + 2
        p == (IF h[n] = "</span>" THEN n ELSE n + 1) + 2
        c == (IF h[p] = "</span>" THEN p ELSE p + 1) + 2
        e == CHOOSE j \in c..Len(h) : h[j] = "</span>" /\ \A m \in c..(j - 1) : h[m] # "</span>"
    IN  [class |-> h[i],
         old |-> IF h[o] = "</span>" THEN 0 ELSE ShownNumber(h[o]),
         new |-> IF h[n] = "</span>" THEN 0 ELSE ShownNumber(h[n]),
         prefix |-> IF h[p] = "</span>" THEN "" ELSE h[p],
         content |-> SubSeq(h, c, e - 1)]

\* the lines of the whole diff as rendered, in order: those of the full
\* section when the diff is collapsed
ShownLines(h) ==
    LET full == {i \in 1..Len(h) : h[i] = "<div class=\"diff-full\">"}
        at == {i \in 1..Len(h) : h[i] \in DiffLineTags /\ \A f \in full : f < i}
    IN  [k \in 1..Cardinality(at) |->
            ShownAt(h, CHOOSE i \in at : Cardinality({j \in at : j < i}) = k - 1)]

\* how many of the first k lines have the class
ClassBefore(lines, k, class) == Cardinality({j \in 1..(k - 1) : lines[j].class = class})

\* C17: for differing old and new strings, a delete line carries an old
\* number and no new number, an add line a new number and no old number, a
\* context line both; the counters advance by one per line of their side and
\* are reset at every hunk header, so that a shown old number is the position
\* of the line in the old string and a shown new number its position in the
\* new string.
C17_LineNumbersArePositions ==
    pc = "returned" /\ call.old_string # call.new_string =>
        LET lines == ShownLines(rendered.html)
            old_lines == splitlines(call.old_string.str)
            new_lines == splitlines(call.new_string.str)
            del == "<div class=\"diff-line diff-del\">"
            add == "<div class=\"diff-line diff-add\">"
            ctx == "<div class=\"diff-line diff-context\">"
        IN  /\ Len(lines) = Len(EditBody)
            /\ \A k \in 1..Len(lines) :
                   LET l == lines[k]
                   IN  /\ l.class = del => l.old > 0 /\ l.new = 0 /\ l.prefix = "-"
                       /\ l.class = add => l.new > 0 /\ l.old = 0 /\ l.prefix = "+"
                       /\ l.class = ctx => l.old > 0 /\ l.new > 0 /\ l.prefix = ""
                       /\ l.old > 0 => /\ l.old <= Len(old_lines)
                                       /\ l.content = escape(rstrip_newlines(old_lines[l.old]))
                       /\ l.new > 0 => /\ l.new <= Len(new_lines)
                                       /\ l.content = escape(rstrip_newlines(new_lines[l.new]))
                       /\ l.class = ctx => l.new - l.old = ClassBefore(lines, k, add) - ClassBefore(lines, k, del)
            /\ \A j, k \in 1..Len(lines) :
                   j < k => /\ lines[j].old > 0 /\ lines[k].old > 0 => lines[j].old < lines[k].old
                            /\ lines[j].new > 0 /\ lines[k].new > 0 => lines[j].new < lines[k].new
            /\ \A k \in 1..(Len(lines) - 1) :
                   /\ lines[k].old > 0 /\ lines[k + 1].old > 0 /\ lines[k].new > 0 /\ lines[k + 1].new > 0
                          => lines[k + 1].old - lines[k].old = lines[k + 1].new - lines[k].new
            /\ ClassBefore(lines, Len(lines) + 1, add) - ClassBefore(lines, Len(lines) + 1, del)
                   = Len(new_lines) - Len(old_lines)

\* a diff of two hunks has been rendered: the second hunk starts again at the
\* position its header gives
C17_Witness ==
    /\ pc = "returned"
    /\ LET lines == ShownLines(rendered.html)
       IN  \E k \in 1..(Len(lines) - 1) : lines[k].old > 0 /\ lines[k + 1].old > lines[k].old + 1

====
